---- MODULE Spec2Model ----
(***************************************************************************)
(* A model of common/clients/multi-tcp-client/src/lib.rs: the multi-peer   *)
(* TCP client (Client::new, Client::send), the write adapter               *)
(* (ConnectionWriter::poll_write), the reconnection future                 *)
(* (ConnectionReconnector::new / poll) and its backoff computation.        *)
(*                                                                         *)
(* Three specifications share the variables:                               *)
(*   Spec             the Client: construction, send, the peers' sockets   *)
(*   SpecReconnector  one ConnectionReconnector being polled               *)
(*   SpecBackoff      the delay computation of poll, on drawn inputs       *)
(* The source never constructs a ConnectionReconnector from Client::send,  *)
(* so the components do not interact and each specification leaves the     *)
(* other components' variables at their idle value.                        *)
(***************************************************************************)
EXTENDS Integers, Sequences, FiniteSets, TLC

VARIABLES
    clientState,          \* "constructing" | "ready" | "panicked" | "none"
    initial_endpoints,    \* Config.initial_endpoints, as given to Client::new
    config,               \* Config.initial_endpoints still to be connected by Client::new
    connections_writers,  \* Client.connections_writers: endpoint -> ConnectionWriter
    sock,                 \* per endpoint: the TCP connection as the kernel and the peer see it
    call,                 \* the send future in flight (send takes &mut self: at most one)
    ret,                  \* what the last finished send returned
    sentOk,               \* per endpoint: payloads of the sends that returned Ok, concatenated
    nSends,               \* number of send calls made so far
    lastPoll,             \* the last ConnectionWriter::poll_write: what the socket answered, what it returned
    rec,                  \* the ConnectionReconnector (SpecReconnector)
    connects,             \* connect operations started by the reconnector
    armed,                \* the delays the reconnector's timer was armed with, in order
    bk,                   \* the backoff computation's inputs and result (SpecBackoff)
    mix_nodes,            \* what NymTopology::mix_nodes() returns (SpecTopology)
    topo                  \* the topology call made and what it returned (SpecTopology)

vars == <<clientState, initial_endpoints, config, connections_writers, sock, call, ret, sentOk,
          nSends, lastPoll, rec, connects, armed, bk, mix_nodes, topo>>

clientVars == <<clientState, initial_endpoints, config, connections_writers, sock, call, ret,
                sentOk, nSends, lastPoll>>
recVars    == <<rec, connects, armed>>
topoVars   == <<mix_nodes, topo>>

---------------------------------------------------------------------------
(* Bounds of the model *)

\* number of send calls explored
MaxSends == 2
\* bytes the peer may have in flight towards the client (what the probe read sees)
MaxRx == 1

---------------------------------------------------------------------------
(* The Client's world *)

\* the addresses a caller may pass to send; "X" is never configured
Addresses == {"A", "B", "X"}
\* Config.initial_endpoints, as drawn by Init
InitialEndpointLists == {<<"A">>, <<"A", "B">>}
Endpoints == {"A", "B"}
\* the payloads a caller may pass to send
Messages == {<<>>, <<1>>, <<1, 2>>, <<2, 1>>}

\* Config.initial_reconnection_backoff and maximum_reconnection_backoff, in seconds, as the
\* repository's test configures them
TestReconnectionBackoff == 2
TestMaximumBackoff == 10 * TestReconnectionBackoff

NoCall == [state |-> "idle"]
NoRet  == [n |-> 0]
NoPoll == [probe |-> "none", write |-> "none", result |-> "none"]
\* failed: a write on this connection has already reported it closed or broken
NoSock == [peer |-> "unconnected", rx |-> 0, received |-> <<>>, failed |-> FALSE]

Min(a, b) == IF a <= b THEN a ELSE b

\* ConnectionWriter::new
ConnectionWriterNew(connection, initial_reconnection_backoff, maximum_reconnection_backoff) ==
    [connection |-> connection,
     reconnection_backoff |-> initial_reconnection_backoff,
     maximum_reconnection_backoff |-> maximum_reconnection_backoff,
     current_reconnection_backoff |-> initial_reconnection_backoff]

\* HashMap::insert on a TLA+ function
MapInsert(m, k, v) == [x \in (DOMAIN m) \cup {k} |-> IF x = k THEN v ELSE m[x]]

\* a send that goes straight to the writer lookup, without the membership check
ContainsKeyOmitted(address) == TRUE

\* self.connections_writers.contains_key(&address)
ContainsKey(address) == address \in DOMAIN connections_writers

ClientInit ==
    /\ clientState = "constructing"
    /\ initial_endpoints \in InitialEndpointLists
    /\ config = initial_endpoints
    /\ connections_writers = << >>
    /\ sock = [e \in Endpoints |-> NoSock]
    /\ call = NoCall
    /\ ret = NoRet
    /\ sentOk = [e \in Endpoints |-> <<>>]
    /\ nSends = 0
    /\ lastPoll = NoPoll

\* no Client is being constructed (the other specifications)
ClientIdle ==
    /\ clientState = "none"
    /\ initial_endpoints = <<>>
    /\ config = <<>>
    /\ connections_writers = << >>
    /\ sock = [e \in Endpoints |-> NoSock]
    /\ call = NoCall
    /\ ret = NoRet
    /\ sentOk = [e \in Endpoints |-> <<>>]
    /\ nSends = 0
    /\ lastPoll = NoPoll

\* a Client::new that skips an endpoint it cannot connect to
NewConnectStepSkipping(connected) ==
    /\ connections_writers' =
          IF connected
          THEN MapInsert(connections_writers, Head(config),
                         ConnectionWriterNew(1, TestReconnectionBackoff, TestMaximumBackoff))
          ELSE connections_writers
    /\ sock' = IF connected
               THEN [sock EXCEPT ![Head(config)] = [NoSock EXCEPT !.peer = "open"]]
               ELSE sock
    /\ config' = Tail(config)
    /\ clientState' = IF Tail(config) = <<>> THEN "ready" ELSE "constructing"

\* the body of Client::new's loop for the endpoint Head(config):
\* connect(endpoint).await.unwrap(), then insert. A failed connect panics in unwrap.
\* connection 1 is the bootstrap connection to the endpoint.
NewConnectStep(connected) ==
    IF connected
    THEN /\ connections_writers' =
               MapInsert(connections_writers, Head(config),
                         ConnectionWriterNew(1, TestReconnectionBackoff, TestMaximumBackoff))
         /\ sock' = [sock EXCEPT ![Head(config)] = [NoSock EXCEPT !.peer = "open"]]
         /\ config' = Tail(config)
         /\ clientState' = IF Tail(config) = <<>> THEN "ready" ELSE "constructing"
    ELSE /\ clientState' = "panicked"
         /\ UNCHANGED <<connections_writers, sock, config>>

\* Client::new, one iteration of its loop
NewConnect ==
    /\ clientState = "constructing"
    /\ config # <<>>
    /\ \E connected \in BOOLEAN : NewConnectStep(connected)
    /\ UNCHANGED <<initial_endpoints, call, ret, sentOk, nSends, lastPoll, recVars, bk, topoVars>>

---------------------------------------------------------------------------
(* The sockets: tokio's TcpStream and the peer behind it (the environment) *)

\* poll_read of the one-byte probe buffer on a socket in state s:
\*   "data"    Ready(Ok(1)): a byte the peer sent is consumed
\*   "pending" nothing to read, peer still there
\*   "eof"     Ready(Ok(0)): the peer closed
\*   "err"     Ready(Err): the connection was reset
ProbeRead(s) ==
    IF s.rx > 0 THEN "data"
    ELSE IF s.peer = "closed" THEN "eof"
    ELSE IF s.peer = "reset" THEN "err"
    ELSE "pending"

\* what TcpStream::poll_write may answer for a non-empty buffer of n bytes:
\* Pending (send buffer full), Ok(k) for a partial or full write, or an I/O error.
\* After the peer closed, the kernel may still accept bytes the peer never reads.
SocketWriteOutcomes(s, n) ==
    CASE s.peer = "open"   -> {[kind |-> "pending", n |-> 0]} \cup {[kind |-> "ok", n |-> k] : k \in 1..n}
      [] s.peer = "closed" -> {[kind |-> "err", n |-> 0]} \cup {[kind |-> "ok", n |-> k] : k \in 1..n}
      [] OTHER             -> {[kind |-> "err", n |-> 0]}

\* the peer closes its end of the connection
PeerClose(e) ==
    /\ sock[e].peer = "open"
    /\ sock' = [sock EXCEPT ![e].peer = "closed"]
    /\ UNCHANGED <<clientState, initial_endpoints, config, connections_writers, call, ret, sentOk,
                   nSends, lastPoll, recVars, bk, topoVars>>

\* the connection is reset
PeerReset(e) ==
    /\ sock[e].peer \in {"open", "closed"}
    /\ sock' = [sock EXCEPT ![e].peer = "reset"]
    /\ UNCHANGED <<clientState, initial_endpoints, config, connections_writers, call, ret, sentOk,
                   nSends, lastPoll, recVars, bk, topoVars>>

\* the peer sends a byte towards the client
PeerData(e) ==
    /\ sock[e].peer = "open"
    /\ sock[e].rx < MaxRx
    /\ sock' = [sock EXCEPT ![e].rx = @ + 1]
    /\ UNCHANGED <<clientState, initial_endpoints, config, connections_writers, call, ret, sentOk,
                   nSends, lastPoll, recVars, bk, topoVars>>

---------------------------------------------------------------------------
(* Client::send *)

\* the value a finished send leaves behind: its arguments, its io::Result, whether it
\* touched a socket, the error its write met (if any) and the connection it wrote to
Returned(n, address, message, result, io, writeErr, conn) ==
    [n |-> n, address |-> address, message |-> message, result |-> result,
     io |-> io, writeErr |-> writeErr, conn |-> conn]

\* a write_all that does not advance its buffer after a partial write
RemainingFromStart(c) == c.message

\* the part of the message write_all still has to write: it advances its buffer by the
\* count every poll_write returns
Remaining(c) == SubSeq(c.message, c.written + 1, Len(c.message))

\* a send that takes a shared reference: callers may overlap
ClientBorrowedNever == FALSE

\* send takes &mut self: while a send future is alive the Client is exclusively borrowed and
\* no other send can be called
ClientBorrowed == call # NoCall

\* send, from its entry to its first suspension point: the contains_key check, then
\* get_mut(&address).unwrap() and the start of write_all (an empty buffer is done at once)
SendCall(address, message) ==
    /\ clientState = "ready"
    /\ ~ClientBorrowed
    /\ nSends < MaxSends
    /\ nSends' = nSends + 1
    /\ IF ~ContainsKey(address)
       THEN /\ ret' = Returned(nSends + 1, address, message, "AddrNotAvailable", FALSE, "none", 0)
            /\ UNCHANGED <<clientState, call, sentOk>>
       ELSE IF address \notin DOMAIN connections_writers
       THEN \* unwrap() of None
            /\ clientState' = "panicked"
            /\ call' = [state |-> "panicked", address |-> address, message |-> message,
                        written |-> 0, io |-> FALSE]
            /\ UNCHANGED <<ret, sentOk>>
       ELSE IF message = <<>>
       THEN /\ ret' = Returned(nSends + 1, address, message, "Ok", FALSE, "none",
                               connections_writers[address].connection)
            /\ UNCHANGED <<clientState, call, sentOk>>
       ELSE /\ call' = [state |-> "writing", address |-> address, message |-> message,
                        written |-> 0, io |-> FALSE]
            /\ UNCHANGED <<clientState, ret, sentOk>>
    /\ UNCHANGED <<initial_endpoints, config, connections_writers, sock, lastPoll, recVars, bk, topoVars>>

\* a probe that takes a read error for a closed connection as well
ProbeFoundClosedOrFailed(probe) == probe \in {"eof", "err"}

\* poll_write's match on the probe read: Ready(Ok(0)) means the connection is closed
ProbeFoundClosed(probe) == probe = "eof"

\* a send that hands the error of its write to the caller
SendResultPropagating(writeErr) == IF writeErr = "none" THEN "Ok" ELSE writeErr

\* what send returns once write_all has ended with writeErr ("none": all bytes written):
\* the error is printed and dropped, and Ok(()) is returned either way
SendResult(writeErr) == "Ok"

\* One poll_write of the send in flight (ConnectionWriter::poll_write, called by
\* write_all): the probe read, then, unless it saw end-of-stream, the socket's write.
\* A write error ends write_all; send logs it and returns Ok(()) all the same.
PollWrite ==
    /\ call.state = "writing"
    /\ LET a     == call.address
           conn  == connections_writers[a].connection
           probe == ProbeRead(sock[a])
           s1    == IF probe = "data" THEN [sock[a] EXCEPT !.rx = @ - 1] ELSE sock[a]
           buf   == Remaining(call)
           \* write_all has ended and send returns
           Finish(writeErr) ==
               /\ call' = NoCall
               /\ ret' = Returned(nSends, a, call.message, SendResult(writeErr), TRUE,
                                  writeErr, conn)
               /\ sentOk' = IF SendResult(writeErr) = "Ok"
                            THEN [sentOk EXCEPT ![a] = @ \o call.message]
                            ELSE sentOk
       IN IF ProbeFoundClosed(probe)
          THEN /\ sock' = [sock EXCEPT ![a] = [s1 EXCEPT !.failed = TRUE]]
               /\ lastPoll' = [probe |-> probe, write |-> "none", result |-> "UnexpectedEof"]
               /\ Finish("UnexpectedEof")
          ELSE \E w \in SocketWriteOutcomes(s1, Len(buf)) :
               /\ lastPoll' = [probe |-> probe, write |-> w.kind,
                               result |-> CASE w.kind = "pending" -> "Pending"
                                            [] w.kind = "err" -> "Io"
                                            [] OTHER -> "Ok"]
               /\ CASE w.kind = "pending" ->
                        /\ sock' = [sock EXCEPT ![a] = s1]
                        /\ call' = [call EXCEPT !.io = TRUE]
                        /\ UNCHANGED <<ret, sentOk>>
                   [] w.kind = "err" ->
                        /\ sock' = [sock EXCEPT ![a] = [s1 EXCEPT !.failed = TRUE]]
                        /\ Finish("Io")
                   [] OTHER ->
                        /\ sock' = [sock EXCEPT ![a] =
                                      [s1 EXCEPT !.received =
                                         IF s1.peer = "open" THEN @ \o SubSeq(buf, 1, w.n) ELSE @]]
                        /\ IF call.written + w.n = Len(call.message)
                           THEN Finish("none")
                           ELSE /\ call' = [call EXCEPT !.written = @ + w.n, !.io = TRUE]
                                /\ UNCHANGED <<ret, sentOk>>
    /\ UNCHANGED <<clientState, initial_endpoints, config, connections_writers, nSends, recVars, bk, topoVars>>

ClientNext ==
    \/ NewConnect
    \/ \E address \in Addresses, message \in Messages : SendCall(address, message)
    \/ PollWrite
    \/ \E e \in Endpoints : PeerClose(e) \/ PeerReset(e) \/ PeerData(e)

---------------------------------------------------------------------------
(* The backoff computation of ConnectionReconnector::poll *)

\* width of current_retry_attempt and of the 2_u32 literal
U32Bits == 32
\* largest base and cap, in seconds, a drawn configuration uses
MaxBackoff == 3
\* attempt counts explored by SpecBackoff: 0..MaxExponent, past the width of u32
MaxExponent == 33
\* largest maximum_retry_attempts a drawn reconnector is configured with
MaxRetryAttempts == 3

\* min(cap, 2^n * base) over the naturals, by repeated doubling: the doubling stops once
\* the cap is reached, so no intermediate value exceeds 2 * cap
CappedDoubling[n \in Nat, base \in Nat, cap \in Nat] ==
    IF n = 0 \/ base >= cap \/ base = 0 THEN Min(cap, base)
    ELSE CappedDoubling[n - 1, 2 * base, cap]

\* std::cmp::min(maximum_reconnection_backoff, 2_u32.pow(attempt) * reconnection_backoff):
\* the set of results the builds of the crate produce.
\*   attempt <  32: 2^attempt fits u32 and, for the bases of the model (a few seconds),
\*                  the Duration product fits too: the result is the minimum.
\*   attempt >= 32: 2_u32.pow overflows: a build with overflow checks panics, a build
\*                  without them wraps 2^attempt to 0 and the delay is min(cap, 0) = 0.
NextDelayOutcomes(attempt, reconnection_backoff, maximum_reconnection_backoff) ==
    IF attempt < U32Bits
    THEN {[kind |-> "delay",
           delay |-> CappedDoubling[attempt, reconnection_backoff, maximum_reconnection_backoff]]}
    ELSE {[kind |-> "panic", delay |-> 0],
          [kind |-> "delay", delay |-> Min(maximum_reconnection_backoff, 0 * reconnection_backoff)]}

NoBk == [state |-> "idle"]
BkIdle == bk = NoBk

BackoffInit ==
    \E attempt \in 0..MaxExponent, base \in 0..MaxBackoff, cap \in 0..MaxBackoff :
        bk = [state |-> "input", attempt |-> attempt, reconnection_backoff |-> base,
              maximum_reconnection_backoff |-> cap, kind |-> "none", delay |-> 0]

\* the computation applied to the drawn inputs
BackoffApply ==
    /\ bk.state = "input"
    /\ \E d \in NextDelayOutcomes(bk.attempt, bk.reconnection_backoff,
                                  bk.maximum_reconnection_backoff) :
         bk' = [bk EXCEPT !.state = "output", !.kind = d.kind, !.delay = d.delay]
    /\ UNCHANGED <<clientVars, recVars, topoVars>>

---------------------------------------------------------------------------
(* ConnectionReconnector *)

NoRec == [state |-> "none"]
RecIdle == rec = NoRec /\ connects = 0 /\ armed = <<>>

\* tokio::time::delay_for(d) and Delay::reset(now + d): a timer d away; a zero delay has
\* elapsed as soon as it is armed. waker: a task waits to be woken by this timer.
DelayFor(d) == [duration |-> d, elapsed |-> (d = 0), waker |-> FALSE]

\* a constructor that arms the first delay with the configured backoff
ReconnectorNewArmedWithBase(address, maximum_retry_attempts, reconnection_backoff, maximum_backoff) ==
    [state |-> "live",
     address |-> address,
     connection |-> "created",
     connWaker |-> FALSE,
     current_backoff_delay |-> DelayFor(reconnection_backoff),
     current_retry_attempt |-> 0,
     maximum_reconnection_backoff |-> maximum_backoff,
     maximum_retry_attempts |-> maximum_retry_attempts,
     reconnection_backoff |-> reconnection_backoff,
     woken |-> TRUE,
     out |-> "Pending"]

\* ConnectionReconnector::new. connection: the connect future, created but not yet polled.
\* out is what poll has returned: "Pending" until it returns Ready.
ReconnectorNew(address, maximum_retry_attempts, reconnection_backoff, maximum_backoff) ==
    [state |-> "live",
     address |-> address,
     connection |-> "created",
     connWaker |-> FALSE,
     current_backoff_delay |-> DelayFor(0),
     current_retry_attempt |-> 0,
     maximum_reconnection_backoff |-> maximum_backoff,
     maximum_retry_attempts |-> maximum_retry_attempts,
     reconnection_backoff |-> reconnection_backoff,
     woken |-> TRUE,
     out |-> "Pending"]

ReconnectorInit ==
    /\ \E maximum_retry_attempts \in 0..MaxRetryAttempts,
          base \in 0..MaxBackoff, cap \in 0..MaxBackoff :
         rec = ReconnectorNew("A", maximum_retry_attempts, base, cap)
    /\ connects = 0
    /\ armed = <<0>>

\* Polling the boxed TcpStream::connect future in state c:
\*   "created"    first poll: the connect starts; it may resolve at once or stay in flight
\*   "inflight"   not resolved yet
\*   "ready_ok" / "ready_err"  resolved: the poll hands the result out, the future is done
\*   "completed"  an async fn polled again after it returned Ready panics
ConnectPollOutcomes(c) ==
    CASE c = "created"   -> {"pending", "ok", "err"}
      [] c = "inflight"  -> {"pending"}
      [] c = "ready_ok"  -> {"ok"}
      [] c = "ready_err" -> {"err"}
      [] OTHER           -> {"panic"}

\* the limit check after a failed attempt
ReachedLimit(current_retry_attempt, maximum_retry_attempts) ==
    current_retry_attempt = maximum_retry_attempts

\* ConnectionReconnector::poll, one call
ReconnectorPoll ==
    /\ rec.state = "live"
    /\ rec.out = "Pending"
    /\ IF ~rec.current_backoff_delay.elapsed
       THEN \* still in backoff: the delay's poll registered the task with the timer
            /\ rec' = [rec EXCEPT !.current_backoff_delay.waker = TRUE, !.woken = FALSE]
            /\ UNCHANGED <<connects, armed>>
       ELSE \E r \in ConnectPollOutcomes(rec.connection) :
              LET started == IF rec.connection = "created" THEN 1 ELSE 0
                  attempt == rec.current_retry_attempt + 1
              IN CASE r = "pending" ->
                        /\ rec' = [rec EXCEPT !.connection = "inflight", !.connWaker = TRUE,
                                              !.woken = FALSE]
                        /\ connects' = connects + started
                        /\ UNCHANGED armed
                   [] r = "ok" ->
                        /\ rec' = [rec EXCEPT !.connection = "completed", !.woken = FALSE,
                                              !.out = "Ok"]
                        /\ connects' = connects + started
                        /\ UNCHANGED armed
                   [] r = "panic" ->
                        /\ rec' = [rec EXCEPT !.woken = FALSE, !.out = "panic"]
                        /\ UNCHANGED <<connects, armed>>
                   [] OTHER ->
                        /\ connects' = connects + started
                        /\ IF ReachedLimit(attempt, rec.maximum_retry_attempts)
                           THEN /\ rec' = [rec EXCEPT !.connection = "completed",
                                                 !.current_retry_attempt = attempt,
                                                 !.woken = FALSE, !.out = "Err"]
                                /\ UNCHANGED armed
                           ELSE \E d \in NextDelayOutcomes(attempt, rec.reconnection_backoff,
                                                           rec.maximum_reconnection_backoff) :
                                  IF d.kind = "panic"
                                  THEN /\ rec' = [rec EXCEPT !.connection = "completed",
                                                        !.current_retry_attempt = attempt,
                                                        !.woken = FALSE, !.out = "panic"]
                                       /\ UNCHANGED armed
                                  ELSE \* the timer is reset; poll returns Pending without
                                       \* polling it
                                       /\ rec' = [rec EXCEPT !.connection = "completed",
                                                        !.current_retry_attempt = attempt,
                                                        !.current_backoff_delay = DelayFor(d.delay),
                                                        !.woken = FALSE]
                                       /\ armed' = Append(armed, d.delay)
    /\ UNCHANGED <<clientVars, bk, topoVars>>

\* the connect in flight resolves; the task waiting on it is woken
ConnectResolve ==
    /\ rec.state = "live"
    /\ rec.connection = "inflight"
    /\ \E connected \in BOOLEAN :
         rec' = [rec EXCEPT !.connection = IF connected THEN "ready_ok" ELSE "ready_err",
                            !.woken = @ \/ rec.connWaker,
                            !.connWaker = FALSE]
    /\ UNCHANGED <<connects, armed, clientVars, bk, topoVars>>

\* the armed timer elapses; the task registered with it, if any, is woken
TimerFire ==
    /\ rec.state = "live"
    /\ ~rec.current_backoff_delay.elapsed
    /\ rec' = [rec EXCEPT !.current_backoff_delay.elapsed = TRUE,
                          !.current_backoff_delay.waker = FALSE,
                          !.woken = @ \/ rec.current_backoff_delay.waker]
    /\ UNCHANGED <<connects, armed, clientVars, bk, topoVars>>

ReconnectorNext ==
    \/ ReconnectorPoll
    \/ ConnectResolve
    \/ TimerFire

---------------------------------------------------------------------------
(* NymTopology: the layered topology and the random route through it *)

\* nymsphinx_types::MAX_PATH_LENGTH
MAX_PATH_LENGTH == 5
\* the longest list of mix nodes
MaxMixNodes == 3

\* a mix::Node: id stands for the fields that tell two nodes apart (host, pub_key, ...);
\* layer is any u64 up to one above MAX_PATH_LENGTH
Layers == 0..(MAX_PATH_LENGTH + 1)
MixNodeLists ==
    UNION {{[i \in 1..n |-> [id |-> i, layer |-> f[i]]] : f \in [1..n -> Layers]} :
           n \in 0..MaxMixNodes}

NoTopo == [state |-> "none"]
TopoIdle == mix_nodes = <<>> /\ topo = NoTopo

\* what a call produced: kind is "Ok", the name of the NymTopologyError, or "panic"
TopologyResult(kind, map, layers, route) ==
    [kind |-> kind, map |-> map, layers |-> layers, route |-> route]

Max(a, b) == IF a >= b THEN a ELSE b

\* layered_topology.entry(layer).or_insert_with(Vec::new).push(mix)
EntryPush(map, layer, mix) ==
    IF layer \in DOMAIN map
    THEN [map EXCEPT ![layer] = Append(@, mix)]
    ELSE [l \in DOMAIN map \cup {layer} |-> IF l = layer THEN <<mix>> ELSE map[l]]

\* the first loop of make_layered_topology, from the i-th node on
RECURSIVE CollectLayers(_, _, _, _)
CollectLayers(nodes, i, layered_topology, highest_layer) ==
    IF i > Len(nodes)
    THEN [kind |-> "collected", map |-> layered_topology, highest_layer |-> highest_layer]
    ELSE IF nodes[i].layer > MAX_PATH_LENGTH
         THEN [kind |-> "InvalidMixLayerError", map |-> <<>>, highest_layer |-> 0]
         ELSE CollectLayers(nodes, i + 1, EntryPush(layered_topology, nodes[i].layer, nodes[i]),
                            Max(highest_layer, nodes[i].layer))

\* the verification loop, from `layer` on: a layer without key is pushed and then indexed;
\* HashMap's Index panics on an absent key
RECURSIVE VerifyLayers(_, _, _, _)
VerifyLayers(layered_topology, layer, highest_layer, missing_layers) ==
    IF layer > highest_layer
    THEN [kind |-> "verified", missing_layers |-> missing_layers]
    ELSE IF layer \notin DOMAIN layered_topology
         THEN [kind |-> "panic", missing_layers |-> Append(missing_layers, layer)]
         ELSE VerifyLayers(layered_topology, layer + 1, highest_layer,
                           IF layered_topology[layer] = <<>>
                           THEN Append(missing_layers, layer)
                           ELSE missing_layers)

make_layered_topology(nodes) ==
    LET c == CollectLayers(nodes, 1, <<>>, 0)
    IN IF c.kind = "InvalidMixLayerError"
       THEN TopologyResult("InvalidMixLayerError", <<>>, <<>>, <<>>)
       ELSE LET v == VerifyLayers(c.map, 1, c.highest_layer, <<>>)
            IN CASE v.kind = "panic" -> TopologyResult("panic", <<>>, <<>>, <<>>)
                 [] v.missing_layers # <<>> ->
                        TopologyResult("MissingLayerError", <<>>, v.missing_layers, <<>>)
                 [] OTHER -> TopologyResult("Ok", c.map, <<>>, <<>>)

\* Into<SphinxNode> for mix::Node: the sphinx node built from the node's host and key
IntoSphinxNode(node) == [from |-> node.id]

\* the routes random_mix_route can collect from a map whose layers 1..num_layers are all
\* present: one node chosen from each layer's vector
RoutesThrough(layered_topology, num_layers) ==
    {[l \in 1..num_layers |-> IntoSphinxNode(layered_topology[l][pick[l]])] :
        pick \in {p \in [1..num_layers -> 1..MaxMixNodes] :
                     \A l \in 1..num_layers : p[l] <= Len(layered_topology[l])}}

\* random_mix_route: `?` hands an error of make_layered_topology on; remove(&layer).unwrap()
\* panics for a layer that is not a key, choose(..).unwrap() for an empty vector
RandomMixRouteOutcomes(nodes) ==
    LET made == make_layered_topology(nodes)
        num_layers == Cardinality(DOMAIN made.map)
    IN IF made.kind # "Ok"
       THEN {made}
       ELSE IF \E layer \in 1..num_layers :
                  layer \notin DOMAIN made.map \/ made.map[layer] = <<>>
            THEN {TopologyResult("panic", <<>>, <<>>, <<>>)}
            ELSE {TopologyResult("Ok", <<>>, <<>>, route) :
                     route \in RoutesThrough(made.map, num_layers)}

TopologyInit ==
    /\ mix_nodes \in MixNodeLists
    /\ topo = [state |-> "input"]

\* a call of make_layered_topology on the topology
MakeLayeredTopology ==
    /\ topo.state = "input"
    /\ topo' = [state |-> "made", result |-> make_layered_topology(mix_nodes)]
    /\ UNCHANGED <<mix_nodes, clientVars, recVars, bk>>

\* a call of random_mix_route on the topology
RandomMixRoute ==
    /\ topo.state = "input"
    /\ \E r \in RandomMixRouteOutcomes(mix_nodes) :
         topo' = [state |-> "routed", result |-> r]
    /\ UNCHANGED <<mix_nodes, clientVars, recVars, bk>>

TopologyNext ==
    \/ MakeLayeredTopology
    \/ RandomMixRoute

---------------------------------------------------------------------------
(* The specifications *)

Init == ClientInit /\ RecIdle /\ BkIdle /\ TopoIdle
Next == ClientNext
Spec == Init /\ [][Next]_vars

InitReconnector == ClientIdle /\ ReconnectorInit /\ BkIdle /\ TopoIdle
SpecReconnector == InitReconnector /\ [][ReconnectorNext]_vars

\* The executor polls a task that has been woken; timers elapse and connects resolve.
ScheduledPoll == rec.state = "live" /\ rec.woken /\ ReconnectorPoll
SpecReconnectorFair ==
    /\ InitReconnector
    /\ [][ReconnectorNext]_vars
    /\ WF_vars(TimerFire)
    /\ WF_vars(ConnectResolve)
    /\ WF_vars(ScheduledPoll)

InitBackoff == ClientIdle /\ RecIdle /\ BackoffInit /\ TopoIdle
NextBackoff == BackoffApply
SpecBackoff == InitBackoff /\ [][NextBackoff]_vars

InitTopology == ClientIdle /\ RecIdle /\ BkIdle /\ TopologyInit
SpecTopology == InitTopology /\ [][TopologyNext]_vars

---------------------------------------------------------------------------
(* Claims about the Reconnector (SpecReconnector) *)

\* the reconnector has stopped without a connection: poll returned the terminal error, or
\* panicked
RecStoppedFailed == rec.state = "live" /\ rec.out \in {"Err", "panic"}

\* C1: a reconnector with maximum_retry_attempts = k >= 1 whose connect attempts all fail
\* stops only by returning the terminal error, and has then made exactly k connect attempts.
C1_ExactlyKAttempts ==
    (RecStoppedFailed /\ rec.maximum_retry_attempts >= 1)
        => (rec.out = "Err" /\ connects = rec.maximum_retry_attempts)

\* C5: with maximum_retry_attempts = 0, once the first connect attempt has failed the
\* reconnector has returned the terminal error, after exactly one connect attempt.
C5_ZeroMeansOneAttempt ==
    (rec.state = "live" /\ rec.maximum_retry_attempts = 0 /\ rec.current_retry_attempt >= 1)
        => (rec.out = "Err" /\ connects = 1)

---------------------------------------------------------------------------
(* Claims about Client::send (Spec) *)

\* the address of the send call made by the step just taken
CalledAddress == IF call.state # "idle" THEN call.address ELSE ret.address

\* a send has returned after its write met an error
WriteFailedReturned == ret.n > 0 /\ ret.writeErr # "none"

\* the map holds a writer for the address of the last send that is not the one it wrote to
FreshWriterInstalled ==
    /\ ret.address \in DOMAIN connections_writers
    /\ connections_writers[ret.address].connection # ret.conn

\* C2: when a send whose write failed has returned with the endpoint still in the map, a
\* reconnector was driven for it and a fresh writer has replaced the failed one.
C2_ReconnectAndRetry ==
    (WriteFailedReturned /\ ret.address \in DOMAIN connections_writers)
        => (rec # NoRec /\ FreshWriterInstalled)

\* C3: when a send whose write failed has returned without a fresh writer in place (the
\* reconnection did not succeed), it returned DestinationUnreachable and the endpoint is
\* no longer a key of the map.
C3_EvictOnTerminalFailure ==
    (WriteFailedReturned /\ ~FreshWriterInstalled)
        => (ret.result = "DestinationUnreachable"
            /\ ret.address \notin DOMAIN connections_writers)

\* C4: a send to an address that is not a key of the map returns the unknown-destination
\* error in the step that calls it, having touched no socket, and leaves the sockets, the
\* map and the reconnector as they were.
C4_UnknownDestination ==
    [][(nSends' = nSends + 1 /\ CalledAddress' \notin DOMAIN connections_writers)
          => (/\ ret'.n = nSends'
              /\ ret'.result = "AddrNotAvailable"
              /\ ~ret'.io
              /\ call' = NoCall
              /\ UNCHANGED <<sock, connections_writers, clientState, recVars>>)]_vars

C4_Witness ==
    /\ ret.n > 0
    /\ ret.address \notin DOMAIN connections_writers
    /\ ret.result = "AddrNotAvailable"
    /\ \E e \in DOMAIN connections_writers : sock[e].peer = "open"

\* C6: whenever a send to an endpoint that is down has not returned yet (the time in which
\* its recovery runs), a send to another, healthy endpoint can be started.
C6_OtherEndpointNotBlocked ==
    \A b \in DOMAIN connections_writers :
        (/\ call.state = "writing"
         /\ call.address # b
         /\ sock[call.address].peer # "open"
         /\ sock[b].peer = "open"
         /\ nSends < MaxSends)
            => ENABLED SendCall(b, <<1>>)

\* the bytes of the send in flight to e that its writes have already put on the socket
InFlightPrefix(e) ==
    IF call.state = "writing" /\ call.address = e
    THEN SubSeq(call.message, 1, call.written)
    ELSE <<>>

\* C7: for an endpoint whose peer is up, the bytes the peer has observed are exactly the
\* payloads of the sends to it that returned Ok, in call order, followed by what the send
\* in flight has written so far.
C7_HealthyStreamIsSentPayloads ==
    \A e \in DOMAIN connections_writers :
        sock[e].peer = "open" => sock[e].received = sentOk[e] \o InFlightPrefix(e)

C7_Witness ==
    \E e \in DOMAIN connections_writers :
        /\ sock[e].peer = "open"
        /\ call = NoCall
        /\ ret.n = 2
        /\ Len(sentOk[e]) >= 3
        /\ sock[e].received = sentOk[e]

\* C10: between sends, no key of the map holds a writer whose connection a write has
\* already reported closed or broken.
C10_EveryWriterLive ==
    call = NoCall
        => \A e \in DOMAIN connections_writers :
              ~(connections_writers[e].connection = 1 /\ sock[e].failed)

\* C11: every error a send returns is a permanent outcome: the unknown-destination error, for
\* an address that is not a key of the map and without any socket having been touched, or the
\* terminal DestinationUnreachable; the error of a single write or connect attempt is never
\* what send returns.
C11_OnlyPermanentErrors ==
    (ret.n > 0 /\ ret.result # "Ok")
        => \/ /\ ret.result = "AddrNotAvailable"
              /\ ret.address \notin DOMAIN connections_writers
              /\ ret.writeErr = "none"
           \/ ret.result = "DestinationUnreachable"

C11_Witness ==
    /\ ret.n = 2
    /\ ret.result = "AddrNotAvailable"
    /\ \E e \in DOMAIN connections_writers : sock[e].failed

\* C19: a send that returned Ok met no write error: every byte of its payload was accepted
\* by the socket of its destination.
C19_OkOnlyIfWritten ==
    (ret.n > 0 /\ ret.result = "Ok") => ret.writeErr = "none"

\* C12: a poll_write whose probe read reported end-of-stream issued no write on the socket
\* and returned the connection-closed error; after any other probe answer (nothing to read,
\* data, read error) the write was issued and poll_write returned what the socket answered.
C12_ProbeThenWrite ==
    lastPoll.probe # "none"
        => IF lastPoll.probe = "eof"
           THEN lastPoll.write = "none" /\ lastPoll.result = "UnexpectedEof"
           ELSE \/ lastPoll.write = "pending" /\ lastPoll.result = "Pending"
                \/ lastPoll.write = "ok" /\ lastPoll.result = "Ok"
                \/ lastPoll.write = "err" /\ lastPoll.result = "Io"

C12_Witness ==
    /\ lastPoll.probe = "eof"
    /\ ret.n = 2
    /\ ret.writeErr = "UnexpectedEof"
    /\ sock[ret.address].received # <<>>

\* C16: no send to an endpoint starts while a write to that endpoint is in progress, and no
\* reconnector runs beside a write.
C16_SameEndpointSerialized ==
    [][/\ (nSends' = nSends + 1 /\ call.state = "writing") => CalledAddress' # call.address
       /\ call.state = "writing" => rec = NoRec]_vars

C16_Witness ==
    /\ ret.n = 1
    /\ ret.io
    /\ call.state = "writing"
    /\ call.io
    /\ call.address = ret.address

SeqRange(q) == {q[i] : i \in 1..Len(q)}

\* C17: a Client that exists (construction returned, sends can run) has exactly the configured
\* endpoints as the keys of its map, each with a writer on the connection established to
\* that endpoint; a construction that panicked produced no Client: no send ever ran.
C17_AllOrNothing ==
    /\ clientState = "ready"
          => /\ config = <<>>
             /\ DOMAIN connections_writers = SeqRange(initial_endpoints)
             /\ \A e \in DOMAIN connections_writers :
                   /\ connections_writers[e].connection = 1
                   /\ sock[e].peer # "unconnected"
    /\ clientState = "panicked" => (nSends = 0 /\ call = NoCall /\ ret = NoRet)
    /\ clientState = "constructing" => (nSends = 0 /\ call = NoCall /\ ret = NoRet)

C17_Witness ==
    /\ clientState = "ready"
    /\ Len(initial_endpoints) = 2
    /\ \A e \in SeqRange(initial_endpoints) : sock[e].peer = "open"

\* C13: a Reconnector whose connect has not been started yet holds a zero delay that has
\* already elapsed and an attempt counter of 0, and the first step taken on it is the poll
\* that starts the connect: no timer has to fire before it.
C13_FirstAttemptImmediate ==
    [][(rec.state = "live" /\ rec.connection = "created")
          => /\ rec.current_backoff_delay.duration = 0
             /\ rec.current_backoff_delay.elapsed
             /\ rec.current_retry_attempt = 0
             /\ armed = <<0>>
             /\ connects = 0
             /\ rec' # rec => (connects' = 1 /\ rec'.connection # "created")]_vars

C13_Witness ==
    /\ rec.state = "live"
    /\ rec.reconnection_backoff > 0
    /\ rec.connection = "inflight"
    /\ connects = 1
    /\ armed = <<0>>
    /\ rec.current_retry_attempt = 0

\* C14: under fair scheduling the Reconnector eventually returns Ready: Ok with a socket or
\* Err for the exhausted retry budget.
C14_EventuallyTerminal == <>(rec.state = "live" /\ rec.out \in {"Ok", "Err"})

\* the three states a Reconnector is said to be in, read off the fields of the struct
InBackoff == rec.out = "Pending" /\ rec.connection \in {"created", "completed"}
InConnecting == rec.out = "Pending" /\ rec.connection \in {"inflight", "ready_ok", "ready_err"}
Finished == rec.out \in {"Ok", "Err"}

\* C15: after every step the Reconnector is in exactly one of backoff, connecting and
\* finished, and no step changes a finished Reconnector or starts a connect for it.
C15_OneStateAndFinishedIsFinal ==
    [][/\ rec'.state = "live" => (InBackoff' \/ InConnecting' \/ Finished')
       /\ rec'.state = "live" => ~(InBackoff' /\ InConnecting')
       /\ rec'.state = "live" => ~(Finished' /\ (InBackoff' \/ InConnecting'))
       /\ (rec.state = "live" /\ Finished) => (rec' = rec /\ connects' = connects)]_vars

\* C18: no poll resumes a connect future that has already handed out its result: a step
\* taken once the delay has elapsed finds a connect that is new, in flight or just resolved.
C18_EveryAttemptIsFreshConnect ==
    [][(/\ rec.state = "live"
        /\ rec.out = "Pending"
        /\ rec.current_backoff_delay.elapsed
        /\ rec' # rec) => rec.connection # "completed"]_vars

\* C20: whenever poll has returned Pending and the task has not been woken since, the task is
\* registered with what it waits for: the armed timer or the connect in flight.
C20_NoLostWakeup ==
    (rec.state = "live" /\ rec.out = "Pending" /\ ~rec.woken)
        => \/ ~rec.current_backoff_delay.elapsed /\ rec.current_backoff_delay.waker
           \/ rec.connection = "inflight" /\ rec.connWaker

---------------------------------------------------------------------------
(* Claims about the topology (SpecTopology) *)

NodesOfLayer(l) == {mix_nodes[i] : i \in {j \in 1..Len(mix_nodes) : mix_nodes[j].layer = l}}
OccupiedLayers == {mix_nodes[i].layer : i \in 1..Len(mix_nodes)}
HighestLayer == IF OccupiedLayers = {} THEN 0 ELSE CHOOSE h \in OccupiedLayers : \A l \in OccupiedLayers : l <= h
EmptyLayers == {l \in 1..HighestLayer : NodesOfLayer(l) = {}}

\* C21: make_layered_topology always returns: InvalidMixLayerError if some node's layer is
\* above MAX_PATH_LENGTH; else MissingLayerError listing once each the layers of
\* 1..=highest_layer without a node, if there are any; else Ok with the map from each
\* occupied layer to exactly its nodes.
C21_MakeLayeredTopologyTotal ==
    topo.state = "made"
        => IF \E l \in OccupiedLayers : l > MAX_PATH_LENGTH
           THEN topo.result.kind = "InvalidMixLayerError"
           ELSE IF EmptyLayers # {}
                THEN /\ topo.result.kind = "MissingLayerError"
                     /\ SeqRange(topo.result.layers) = EmptyLayers
                     /\ Len(topo.result.layers) = Cardinality(EmptyLayers)
                ELSE /\ topo.result.kind = "Ok"
                     /\ DOMAIN topo.result.map = OccupiedLayers
                     /\ \A l \in OccupiedLayers :
                           /\ SeqRange(topo.result.map[l]) = NodesOfLayer(l)
                           /\ Len(topo.result.map[l]) = Cardinality(NodesOfLayer(l))

\* C22: on a topology for which make_layered_topology returns Ok, random_mix_route returns
\* Ok with a route of one node per layer, the l-th from layer l, for l in 1..=L where L is
\* the number of layers of the map.
C22_RouteThroughEveryLayer ==
    (topo.state = "routed" /\ make_layered_topology(mix_nodes).kind = "Ok")
        => /\ topo.result.kind = "Ok"
           /\ Len(topo.result.route) = Cardinality(OccupiedLayers)
           /\ \A l \in 1..Cardinality(OccupiedLayers) :
                 \E node \in NodesOfLayer(l) : topo.result.route[l] = IntoSphinxNode(node)

---------------------------------------------------------------------------
(* Claims about the backoff computation (SpecBackoff) *)

\* C8: the delay armed after the i-th failed attempt (i >= 1) is min(cap, base * 2^i), is at
\* most the cap, and is not below the delay of attempt i - 1.
C8_DelayIsCappedExponential ==
    (bk.state = "output" /\ bk.attempt >= 1)
        => /\ bk.kind = "delay"
           /\ bk.delay = CappedDoubling[bk.attempt, bk.reconnection_backoff,
                                        bk.maximum_reconnection_backoff]
           /\ bk.delay <= bk.maximum_reconnection_backoff
           /\ \A p \in NextDelayOutcomes(bk.attempt - 1, bk.reconnection_backoff,
                                         bk.maximum_reconnection_backoff) :
                 p.kind = "delay" => p.delay <= bk.delay

\* C9: when 2^attempt does not fit 32 bits (and the base is not zero), the computation
\* neither aborts nor wraps: its result is the cap.
C9_SaturatesOnOverflow ==
    (bk.state = "output" /\ bk.attempt >= U32Bits /\ bk.reconnection_backoff >= 1)
        => (bk.kind = "delay" /\ bk.delay = bk.maximum_reconnection_backoff)

\* Below the width of u32 the computation is the capped exponential, never above the cap and
\* never below the delay of the attempt before.
BelowWidthDelayIsCappedExponential ==
    (bk.state = "output" /\ bk.attempt >= 1 /\ bk.attempt < U32Bits)
        => /\ bk.kind = "delay"
           /\ bk.delay = Min(bk.maximum_reconnection_backoff,
                             IF bk.attempt < 8 THEN 2 ^ bk.attempt * bk.reconnection_backoff
                             ELSE 256 * bk.reconnection_backoff)
           /\ \A p \in NextDelayOutcomes(bk.attempt - 1, bk.reconnection_backoff,
                                         bk.maximum_reconnection_backoff) :
                 p.kind = "delay" /\ p.delay <= bk.delay

====
